---------------------------- MODULE Spec2Model ----------------------------
(***************************************************************************)
(* A model of gfcli (src/src/glfs-cli.c): the command table and its        *)
(* lookup, the line tokenizer, the interactive shell loop, startup option  *)
(* parsing, and the life cycle of the global cli_context, including the    *)
(* SIGINT handler that preempts the main thread.                           *)
(*                                                                         *)
(* A C string is the sequence of its characters without the terminator.    *)
(* A pointer is "NULL" or "PTR"; what it points to lives in heap.          *)
(***************************************************************************)
EXTENDS Integers, Sequences, FiniteSets, TLC

-----------------------------------------------------------------------------
(* Bounds of the model *)

\* lines the shell reads before the input must end
MaxLines == 2
\* command-line arguments after the program name
MaxArgs == 2

-----------------------------------------------------------------------------
(* Strings *)

\* the null char* (strtok_r's "no token", an unset pointer)
NULLSTR == <<"(null)">>
\* an argv slot split_str allocated and never assigned
UNSET == <<"(uninitialized)">>

S_connect == <<"c", "o", "n", "n", "e", "c", "t">>
S_disconnect == <<"d", "i", "s", "c", "o", "n", "n", "e", "c", "t">>
S_gfcat == <<"g", "f", "c", "a", "t">>
S_cat == <<"c", "a", "t">>
S_gfcp == <<"g", "f", "c", "p">>
S_cp == <<"c", "p">>
S_help == <<"h", "e", "l", "p">>
S_gfls == <<"g", "f", "l", "s">>
S_ls == <<"l", "s">>
S_gfmkdir == <<"g", "f", "m", "k", "d", "i", "r">>
S_mkdir == <<"m", "k", "d", "i", "r">>
S_gfmv == <<"g", "f", "m", "v">>
S_mv == <<"m", "v">>
S_quit == <<"q", "u", "i", "t">>
S_gfrm == <<"g", "f", "r", "m">>
S_rm == <<"r", "m">>
S_gfstat == <<"g", "f", "s", "t", "a", "t">>
S_stat == <<"s", "t", "a", "t">>
S_gftail == <<"g", "f", "t", "a", "i", "l">>
S_tail == <<"t", "a", "i", "l">>
S_gfcli == <<"g", "f", "c", "l", "i">>
S_url == <<"g", "l", "f", "s", ":", "/", "/", "h", "/", "v">>

\* isspace () in the C locale
IsSpace(c) == c \in {" ", "\n", "\t", "\r", "\f"}

-----------------------------------------------------------------------------
(* The command table and its lookup *)

\* the entry count as it was before the last entry was added
NUM_CMDS_Stale == 12 - 1

NUM_CMDS == 12

\* an entry without .alias has alias NULL
cmds ==
  << [alias |-> NULLSTR,   name |-> S_connect,    execute |-> "cli_connect"],
     [alias |-> NULLSTR,   name |-> S_disconnect, execute |-> "cli_disconnect"],
     [alias |-> S_gfcat,   name |-> S_cat,        execute |-> "do_cat"],
     [alias |-> S_gfcp,    name |-> S_cp,         execute |-> "do_cp"],
     [alias |-> NULLSTR,   name |-> S_help,       execute |-> "shell_usage"],
     [alias |-> S_gfls,    name |-> S_ls,         execute |-> "do_ls"],
     [alias |-> S_gfmkdir, name |-> S_mkdir,      execute |-> "do_mkdir"],
     [alias |-> S_gfmv,    name |-> S_mv,         execute |-> "not_implemented"],
     [alias |-> NULLSTR,   name |-> S_quit,       execute |-> "handle_quit"],
     [alias |-> S_gfrm,    name |-> S_rm,         execute |-> "do_rm"],
     [alias |-> S_gfstat,  name |-> S_stat,       execute |-> "do_stat"],
     [alias |-> S_gftail,  name |-> S_tail,       execute |-> "do_tail"] >>

\* the null struct cmd pointer; otherwise a cmd pointer is an index into cmds
NoCmd == 0

\* the for loop of get_cmd from index j on: the first entry that matches
RECURSIVE get_cmd_from(_, _)
get_cmd_from(name, j) ==
  IF j > NUM_CMDS THEN NoCmd
  ELSE IF name = cmds[j].name
          \/ (cmds[j].alias # NULLSTR /\ name = cmds[j].alias)
       THEN j
       ELSE get_cmd_from(name, j + 1)

\* a lookup that compares only as many characters as the entry has
\* (strncmp over the length of the entry), from index j on
RECURSIVE get_cmd_prefix_from(_, _)
get_cmd_prefix_from(name, j) ==
  IF j > NUM_CMDS THEN NoCmd
  ELSE IF \/ /\ Len(name) >= Len(cmds[j].name)
             /\ SubSeq(name, 1, Len(cmds[j].name)) = cmds[j].name
          \/ /\ cmds[j].alias # NULLSTR
             /\ Len(name) >= Len(cmds[j].alias)
             /\ SubSeq(name, 1, Len(cmds[j].alias)) = cmds[j].alias
       THEN j
       ELSE get_cmd_prefix_from(name, j + 1)

get_cmd_prefix(name) == get_cmd_prefix_from(name, 1)

get_cmd(name) == get_cmd_from(name, 1)

-----------------------------------------------------------------------------
(* The tokenizer *)

\* trim's loop at index i (1-based); i = 0 is the unsigned index wrapped
\* below zero: the condition i >= 0 still holds and str[-1] is read.
RECURSIVE trim_from(_, _)
trim_from(str, i) ==
  IF i = 0 THEN [str |-> str, oob |-> TRUE]
  ELSE IF IsSpace(str[i]) THEN trim_from(SubSeq(str, 1, i - 1), i - 1)
       ELSE [str |-> str, oob |-> FALSE]

\* trim (str) for a non-null str: the trimmed string, and whether the loop
\* ran below index 0
trim(str) == trim_from(str, Len(str))

\* index of the first character at or after p that is not a space, or
\* Len + 1 (the terminator)
RECURSIVE SkipSpaces(_, _)
SkipSpaces(s, p) ==
  IF p > Len(s) THEN p
  ELSE IF s[p] = " " THEN SkipSpaces(s, p + 1) ELSE p

\* index of the first space at or after p, or Len + 1
RECURSIVE FindSpace(_, _)
FindSpace(s, p) ==
  IF p > Len(s) THEN p
  ELSE IF s[p] = " " THEN p ELSE FindSpace(s, p + 1)

\* strtok_r (s, " ", &pos), first call: the first token, or NULL
strtok_r(s) ==
  LET b == SkipSpaces(s, 1) IN
    IF b > Len(s) THEN NULLSTR
    ELSE SubSeq(s, b, FindSpace(s, b) - 1)

\* number of ' ' characters: the first loop of split_str
RECURSIVE CountSpaces(_, _)
CountSpaces(s, p) ==
  IF p > Len(s) THEN 0
  ELSE (IF s[p] = " " THEN 1 ELSE 0) + CountSpaces(s, p + 1)

\* index of the first ' ' or '\n' at or after p, or Len + 1
RECURSIVE FindDelim(_, _)
FindDelim(s, p) ==
  IF p > Len(s) THEN p
  ELSE IF s[p] \in {" ", "\n"} THEN p ELSE FindDelim(s, p + 1)

\* the second loop of split_str: fills argv[cur_arg] while cur_arg < argc
\* and *line != '\0'
RECURSIVE split_fill(_, _, _, _)
split_fill(line, p, cur_arg, argv) ==
  IF cur_arg <= Len(argv) /\ p <= Len(line)
  THEN LET q == FindDelim(line, p) IN
         split_fill(line, q + 1, cur_arg + 1,
                    [argv EXCEPT ![cur_arg] = SubSeq(line, p, q - 1)])
  ELSE argv

\* split_str (line, &argv) when malloc succeeds: argc is Len of the result
split_str(line) ==
  LET argc == CountSpaces(line, 1) + 1 IN
    split_fill(line, 1, 1, [k \in 1..argc |-> UNSET])


-----------------------------------------------------------------------------
(* Inputs *)

A_debug == <<"-", "-", "d", "e", "b", "u", "g">>
A_d == <<"-", "d">>
A_o == <<"-", "o">>
A_xlator_option == <<"-", "-", "x", "l", "a", "t", "o", "r", "-", "o", "p", "t", "i", "o", "n">>
A_help == <<"-", "-", "h", "e", "l", "p">>
A_version == <<"-", "-", "v", "e", "r", "s", "i", "o", "n">>
A_kv == <<"k", "=", "v">>
A_bad == <<"b", "a", "d">>

\* the words a command line is made of
ArgWords ==
  {A_debug, A_d, A_o, A_xlator_option, A_help, A_version, A_kv, A_bad, S_url}

\* the names the binary is invoked under: the shell, an alias, a name
ProgNames == {S_gfcli, S_gfls, S_cat}

RECURSIVE SeqsUpTo(_, _)
SeqsUpTo(S, n) ==
  IF n = 0 THEN {<< >>}
  ELSE LET shorter == SeqsUpTo(S, n - 1) IN
         shorter \cup {Append(s, x) : s \in shorter, x \in S}

\* lines getline () returns with their newline
Lines ==
  { <<"\n">>,
    <<" ", " ", "\n">>,
    <<"f", "o", "o", "\n">>,
    <<"l", "s", "x", "\n">>,
    <<"q", "u", "i", "t", "\n">>,
    <<"h", "e", "l", "p", "\n">>,
    <<"l", "s", " ", "-", "a", " ", "/", "v", "o", "l", "\n">>,
    <<" ", "l", "s", "\n">>,
    <<"l", "s", " ", " ", "-", "a", "\n">>,
    <<"c", "o", "n", "n", "e", "c", "t", " ", "g", "l", "f", "s", ":", "/", "/", "h", "/", "v", "\n">>,
    <<"d", "i", "s", "c", "o", "n", "n", "e", "c", "t", "\n">> }

\* a last line the input ends in without a newline
FinalLines ==
  { <<" ", " ">>,
    <<"l", "s", " ">>,
    <<"g", "f", "l", "s">> }

\* statuses a file-operation handler returns
StatusValues == {-1, 0, 1}

EXIT_SUCCESS == 0
EXIT_FAILURE == 1

-----------------------------------------------------------------------------
(* State *)

VARIABLES
  pc,                      \* where the main thread is
  ctx,                     \* the global struct cli_context *ctx
  options,                 \* *ctx->options
  heap,                    \* allocation state of each owned resource
  faults,                  \* undefined behaviour that has happened
  log,                     \* releases made by cleanup (), in order
  cleanup_pos,             \* main's position inside cleanup ()
  program_invocation_name,
  optind,                  \* getopt's position in argv
  option_index,            \* parse_options' option_index
  line, line_copy, token, cmd, ret,   \* locals of start_shell and main
  shcall,                  \* which call of start_shell is running
  nread,                   \* lines read so far
  stdin_eof,               \* stdin has reached its end
  io,                      \* the last thing read from or written to the terminal
  ncalls,                  \* how many times cmd->execute has been called
  exitCode, exitPath       \* how the process ended

vars ==
  << pc, ctx, options, heap, faults, log, cleanup_pos,
     program_invocation_name, optind, option_index,
     line, line_copy, token, cmd, ret, shcall, nread, stdin_eof, io,
     ncalls, exitCode, exitPath >>

\* the resources the Context owns
Resources == {"url", "xlator_options", "options", "fs", "ctx"}

NoIO == [kind |-> "none", arg |-> NULLSTR]

\* main, lines 354-370: the Context as constructed; in_shell is not yet set
Init ==
  /\ pc = "main"
  /\ \E name \in ProgNames, args \in SeqsUpTo(ArgWords, MaxArgs),
        b \in BOOLEAN :
       /\ program_invocation_name = [str |-> name, buf |-> "argv"]
       /\ ctx = [argc |-> 1 + Len(args), argv |-> <<name>> \o args,
                 conn_str |-> NULLSTR, fs |-> "NULL", options |-> "PTR",
                 in_shell |-> b, url |-> "NULL"]
  /\ options = [debug |-> FALSE, xlator_options |-> << >>]
  /\ heap = [r \in Resources |->
               IF r \in {"ctx", "options"} THEN "live" ELSE "none"]
  /\ faults = {}
  /\ log = << >>
  /\ cleanup_pos = 0
  /\ optind = 2
  /\ option_index = 0
  /\ line = NULLSTR
  /\ line_copy = NULLSTR
  /\ token = NULLSTR
  /\ cmd = NoCmd
  /\ ret = 0
  /\ shcall = 0
  /\ nread = 0
  /\ stdin_eof = FALSE
  /\ io = NoIO
  /\ ncalls = 0
  /\ exitCode = 0
  /\ exitPath = "none"

-----------------------------------------------------------------------------
(* Process exit *)

\* exit (code) or a return from main: the process is over
Terminate(code, path) ==
  /\ pc' = "exited"
  /\ exitCode' = code
  /\ exitPath' = path

\* the process is killed by a fault (SIGSEGV, abort)
Crash(fault) ==
  /\ pc' = "crashed"
  /\ faults' = faults \cup {fault}
  /\ exitPath' = "crash"
  /\ UNCHANGED exitCode

Running == pc \notin {"exited", "crashed"}

-----------------------------------------------------------------------------
(* The handlers of the command table *)

\* a URL of the form scheme://...
IsUrl(s) ==
  \E i \in 2..(Len(s) - 2) : s[i] = ":" /\ s[i + 1] = "/" /\ s[i + 2] = "/"

\* cli_connect: connects to the URL that is the last argument; a URL that
\* is missing or malformed, or a backend that cannot be reached, is a
\* failure that leaves the Context alone.  A connection already open is
\* replaced by the new one.
cli_connect(c, h) ==
  LET target == c.argv[Len(c.argv)] IN
    {[ret |-> -1, ctx |-> c, heap |-> h]} \cup
    (IF Len(c.argv) >= 2 /\ IsUrl(target)
     THEN {[ret |-> 0,
            ctx |-> [c EXCEPT !.fs = "PTR", !.url = "PTR", !.conn_str = target],
            heap |-> [h EXCEPT !["fs"] = "live", !["url"] = "live"]]}
     ELSE {})

\* cli_disconnect: closes the connection if there is one; never an error
cli_disconnect(c, h) ==
  {[ret |-> 0,
    ctx |-> [c EXCEPT !.fs = "NULL", !.url = "NULL", !.conn_str = NULLSTR],
    heap |-> [h EXCEPT !["fs"] = "none", !["url"] = "none"]]}

\* shell_usage: prints the list of commands
shell_usage(c, h) == {[ret |-> 0, ctx |-> c, heap |-> h]}

\* handle_quit: asks the session to end; it does not end the process
handle_quit(c, h) == {[ret |-> 0, ctx |-> c, heap |-> h]}

\* do_cat, do_cp, do_ls, do_mkdir, do_rm, do_stat, do_tail, not_implemented:
\* each returns a status and leaves the Context as it found it
file_operation(c, h) == {[ret |-> r, ctx |-> c, heap |-> h] : r \in StatusValues}

\* cmd->execute (ctx): what the call returns and what it leaves behind
execute(j, c, h) ==
  CASE cmds[j].execute = "cli_connect" -> cli_connect(c, h)
    [] cmds[j].execute = "cli_disconnect" -> cli_disconnect(c, h)
    [] cmds[j].execute = "shell_usage" -> shell_usage(c, h)
    [] cmds[j].execute = "handle_quit" -> handle_quit(c, h)
    [] OTHER -> file_operation(c, h)

-----------------------------------------------------------------------------
(* main, before the shell *)

\* main, lines 372-380: direct mode if the invoked name is a command
MainDispatch ==
  /\ pc = "main"
  /\ UNCHANGED ncalls
  /\ cmd' = get_cmd(program_invocation_name.str)
  /\ IF cmd' # NoCmd
     THEN /\ ctx' = [ctx EXCEPT !.in_shell = FALSE]
          /\ pc' = "direct_exec"
     ELSE /\ ctx' = [ctx EXCEPT !.in_shell = TRUE]
          /\ pc' = "getopt"
  /\ UNCHANGED << options, heap, faults, log, cleanup_pos,
                  program_invocation_name, optind, option_index,
                  line, line_copy, token, ret, shcall, nread, stdin_eof, io,
                  exitCode, exitPath >>

\* main, line 376: the one handler of direct mode
DirectExec ==
  /\ pc = "direct_exec"
  /\ ncalls' = ncalls + 1
  /\ \E o \in execute(cmd, ctx, heap) :
       /\ ret' = o.ret
       /\ ctx' = o.ctx
       /\ heap' = o.heap
  /\ pc' = "cleanup"
  /\ cleanup_pos' = 1
  /\ UNCHANGED << options, faults, log, program_invocation_name, optind,
                  option_index, line, line_copy, token, cmd, shcall, nread,
                  stdin_eof, io, exitCode, exitPath >>

-----------------------------------------------------------------------------
(* parse_options *)

\* a word getopt_long takes for an option
IsOption(w) == Len(w) >= 2 /\ w[1] = "-"

\* an option that takes the next word as its argument
TakesArg(w) == w \in {A_o, A_xlator_option}

\* getopt_long skips the words that are not options: the index of the next
\* option at or after i, or 0 when there is none
RECURSIVE NextOption(_, _)
NextOption(argv, i) ==
  IF i > Len(argv) THEN 0
  ELSE IF IsOption(argv[i]) THEN i ELSE NextOption(argv, i + 1)

\* the options of argv from i on, each with its argument, in order
RECURSIVE OptionWords(_, _)
OptionWords(argv, i) ==
  IF i > Len(argv) THEN << >>
  ELSE IF IsOption(argv[i])
       THEN IF TakesArg(argv[i]) /\ i < Len(argv)
            THEN <<argv[i], argv[i + 1]>> \o OptionWords(argv, i + 2)
            ELSE <<argv[i]>> \o OptionWords(argv, i + 1)
       ELSE OptionWords(argv, i + 1)

\* the words of argv from i on that are neither options nor their arguments
RECURSIVE Positionals(_, _)
Positionals(argv, i) ==
  IF i > Len(argv) THEN << >>
  ELSE IF IsOption(argv[i])
       THEN IF TakesArg(argv[i]) /\ i < Len(argv)
            THEN Positionals(argv, i + 2)
            ELSE Positionals(argv, i + 1)
       ELSE <<argv[i]>> \o Positionals(argv, i + 1)

\* argv as getopt_long leaves it: the options first, then the rest
Permute(argv) == <<argv[1]>> \o OptionWords(argv, 2) \o Positionals(argv, 2)

\* long_options: the index of a long option in the table, and what
\* getopt_long returns for it
long_options ==
  << [name |-> A_debug, val |-> "d"],
     [name |-> A_help, val |-> "x"],
     [name |-> A_version, val |-> "v"],
     [name |-> A_xlator_option, val |-> "o"] >>

\* parse_xlator_option: NULL unless the text is KEY=VALUE with a key
WellFormedOption(s) == \E i \in 2..Len(s) : s[i] = "="

\* what getopt_long (argc, argv, "o:", long_options, &option_index) returns
\* for the word at i: the option character, the new option_index
GetoptResult(argv, i) ==
  LET w == argv[i]
      long == {k \in 1..Len(long_options) : long_options[k].name = w}
      missing == TakesArg(w) /\ i = Len(argv)
  IN IF long # {}
     THEN LET k == CHOOSE k \in long : TRUE IN
            [opt |-> IF missing THEN "?" ELSE long_options[k].val,
             option_index |-> k - 1]
     ELSE [opt |-> IF w = A_o /\ ~missing THEN "o" ELSE "?",
           option_index |-> option_index]

\* a switch whose default case prints the usage text, whose exit is a
\* success
OptionExitUsageOnError(opt) == EXIT_SUCCESS

\* parse_options, lines 283-298: the status the process exits with for a
\* getopt_long result that ends it: --version and --help succeed, an
\* option getopt_long does not know fails
OptionExit(opt) ==
  IF opt \in {"v", "x"} THEN EXIT_SUCCESS ELSE EXIT_FAILURE

\* parse_options, lines 260-300: one turn of the loop
Getopt ==
  /\ pc = "getopt"
  /\ UNCHANGED ncalls
  /\ LET i == NextOption(ctx.argv, optind) IN
       IF i = 0
       THEN \* opt == -1: break
            /\ ctx' = [ctx EXCEPT !.argv = Permute(ctx.argv)]
            /\ pc' = "po_connect"
            /\ UNCHANGED << options, heap, optind, option_index, io,
                            exitCode, exitPath >>
       ELSE LET r == GetoptResult(ctx.argv, i) IN
            /\ option_index' = r.option_index
            /\ CASE r.opt = "d" ->
                      /\ options' = [options EXCEPT !.debug = TRUE]
                      /\ optind' = i + 1
                      /\ UNCHANGED << pc, heap, io, exitCode, exitPath >>
                 [] r.opt = "o" ->
                      LET optarg == ctx.argv[i + 1] IN
                        IF ~WellFormedOption(optarg)
                        THEN /\ io' = [kind |-> "error", arg |-> optarg]
                             /\ Terminate(EXIT_FAILURE, "parse_options")
                             /\ UNCHANGED << options, heap, optind >>
                        ELSE \/ /\ options' =
                                     [options EXCEPT !.xlator_options =
                                        Append(@, optarg)]
                                /\ heap' = [heap EXCEPT
                                              !["xlator_options"] = "live"]
                                /\ optind' = i + 2
                                /\ UNCHANGED << pc, io, exitCode, exitPath >>
                             \/ \* append_xlator_option == -1
                                /\ io' = [kind |-> "error", arg |-> optarg]
                                /\ Terminate(EXIT_FAILURE, "parse_options")
                                /\ UNCHANGED << options, heap, optind >>
                 [] r.opt = "v" ->
                      /\ io' = [kind |-> "version", arg |-> NULLSTR]
                      /\ Terminate(OptionExit(r.opt), "parse_options")
                      /\ UNCHANGED << options, heap, optind >>
                 [] r.opt = "x" ->
                      /\ io' = [kind |-> "usage", arg |-> NULLSTR]
                      /\ Terminate(OptionExit(r.opt), "parse_options")
                      /\ UNCHANGED << options, heap, optind >>
                 [] OTHER ->
                      /\ io' = [kind |-> "error", arg |-> ctx.argv[i]]
                      /\ Terminate(OptionExit(r.opt), "parse_options")
                      /\ UNCHANGED << options, heap, optind >>
            /\ UNCHANGED ctx
  /\ UNCHANGED << faults, log, cleanup_pos, program_invocation_name,
                  line, line_copy, token, cmd, ret, shcall, nread,
                  stdin_eof >>

\* parse_options, lines 302-305: the connection made at startup
PoConnect ==
  /\ pc = "po_connect"
  /\ UNCHANGED ncalls
  /\ IF ctx.argc - option_index >= 2
     THEN \E o \in cli_connect(ctx, heap) :
            /\ ctx' = o.ctx
            /\ heap' = o.heap
            /\ IF o.ret = -1
               THEN /\ io' = [kind |-> "error", arg |-> <<"cli_connect">>]
                    /\ Terminate(EXIT_FAILURE, "parse_options")
               ELSE /\ pc' = "po_apply"
                    /\ UNCHANGED << io, exitCode, exitPath >>
     ELSE /\ pc' = "enter_shell"
          /\ UNCHANGED << ctx, heap, io, exitCode, exitPath >>
  /\ UNCHANGED << options, faults, log, cleanup_pos,
                  program_invocation_name, optind, option_index,
                  line, line_copy, token, cmd, ret, shcall, nread,
                  stdin_eof >>

\* parse_options, lines 307-309: apply_xlator_options succeeds or fails
PoApply ==
  /\ pc = "po_apply"
  /\ UNCHANGED ncalls
  /\ \/ /\ pc' = "enter_shell"
        /\ UNCHANGED << io, exitCode, exitPath >>
     \/ /\ io' = [kind |-> "error", arg |-> <<"apply_xlator_options">>]
        /\ Terminate(EXIT_FAILURE, "parse_options")
  /\ UNCHANGED << ctx, options, heap, faults, log, cleanup_pos,
                  program_invocation_name, optind, option_index,
                  line, line_copy, token, cmd, ret, shcall, nread,
                  stdin_eof >>

\* start_shell called with the command line still in the Context
EnterShellKeepArgv ==
  /\ pc = "enter_shell"
  /\ UNCHANGED ncalls
  /\ shcall' = 1
  /\ pc' = "prompt"
  /\ UNCHANGED << ctx, options, heap, faults, log, cleanup_pos,
                  program_invocation_name, optind, option_index,
                  line, line_copy, token, cmd, ret, nread, stdin_eof, io,
                  exitCode, exitPath >>

\* main, lines 386-388: forget the command line, call start_shell
EnterShell ==
  /\ pc = "enter_shell"
  /\ UNCHANGED ncalls
  /\ ctx' = [ctx EXCEPT !.argc = 0, !.argv = << >>]
  /\ shcall' = 1
  /\ pc' = "prompt"
  /\ UNCHANGED << options, heap, faults, log, cleanup_pos,
                  program_invocation_name, optind, option_index,
                  line, line_copy, token, cmd, ret, nread, stdin_eof, io,
                  exitCode, exitPath >>

-----------------------------------------------------------------------------
(* start_shell *)

\* where the loop goes once the handler has returned ret: a loop that
\* gives up on a failed command
AfterHandlerStopOnFailure(r) == IF r = -1 THEN "sh_out" ELSE "prompt"

\* where the loop goes once the handler has returned ret (lines 204-214):
\* round again, whatever the status
AfterHandler(r) == "prompt"

\* lines 168-175: free the old line, print the prompt
Prompt ==
  /\ pc = "prompt"
  /\ UNCHANGED ncalls
  /\ line' = NULLSTR
  /\ program_invocation_name' =
       IF program_invocation_name.buf = "line"
       THEN [str |-> NULLSTR, buf |-> "freed"]
       ELSE program_invocation_name
  /\ io' = [kind |-> "prompt", arg |-> ctx.conn_str]
  /\ pc' = "reading"
  /\ UNCHANGED << ctx, options, heap, faults, log, cleanup_pos, optind,
                  option_index, line_copy, token, cmd, ret, shcall, nread,
                  stdin_eof, exitCode, exitPath >>

\* lines 177-181: getline returns a line, or -1 at the end of the input
Getline ==
  /\ pc = "reading"
  /\ UNCHANGED ncalls
  /\ \/ /\ ret' = -1
        /\ stdin_eof' = TRUE
        /\ io' = [kind |-> "eof", arg |-> NULLSTR]
        /\ pc' = "sh_out"
        /\ UNCHANGED << line, nread >>
     \/ /\ ~stdin_eof
        /\ nread < MaxLines
        /\ \/ \E l \in Lines : line' = l /\ stdin_eof' = FALSE
           \/ \E l \in FinalLines : line' = l /\ stdin_eof' = TRUE
        /\ ret' = 0
        /\ nread' = nread + 1
        /\ io' = [kind |-> "line", arg |-> line']
        /\ pc' = "got_line"
  /\ UNCHANGED << ctx, options, heap, faults, log, cleanup_pos,
                  program_invocation_name, optind, option_index,
                  line_copy, token, cmd, shcall, exitCode, exitPath >>

\* lines 183-191: skip a bare newline; otherwise copy the line
GotLine ==
  /\ pc = "got_line"
  /\ UNCHANGED ncalls
  /\ IF line[1] = "\n"
     THEN /\ pc' = "prompt"
          /\ UNCHANGED << line_copy, io >>
     ELSE \/ /\ line_copy' = line
             /\ pc' = "tokenize"
             /\ UNCHANGED io
          \/ \* strdup == NULL
             /\ io' = [kind |-> "strdup_failed", arg |-> NULLSTR]
             /\ pc' = "sh_out"
             /\ UNCHANGED line_copy
  /\ UNCHANGED << ctx, options, heap, faults, log, cleanup_pos,
                  program_invocation_name, optind, option_index,
                  line, token, cmd, ret, shcall, nread, stdin_eof,
                  exitCode, exitPath >>

\* lines 193-195: first token, trimmed, looked up.  strtok_r returns NULL
\* for a line of spaces and strlen (NULL) faults.  A token of white space
\* only sends trim below index 0: it clears the spaces in front of the
\* token and then reads the byte in front of the buffer, which either
\* stops it or lets it run on through the heap.
Tokenize ==
  /\ pc = "tokenize"
  /\ UNCHANGED ncalls
  /\ LET tok == strtok_r(line_copy) IN
       IF tok = NULLSTR
       THEN /\ Crash("null_token")
            /\ UNCHANGED << token, cmd >>
       ELSE LET t == trim(tok) IN
              \/ /\ token' = t.str
                 /\ cmd' = get_cmd(t.str)
                 /\ faults' = IF t.oob THEN faults \cup {"trim_out_of_bounds"}
                              ELSE faults
                 /\ pc' = "dispatch"
                 /\ UNCHANGED << exitCode, exitPath >>
              \/ /\ t.oob
                 /\ Crash("trim_out_of_bounds")
                 /\ UNCHANGED << token, cmd >>
  /\ UNCHANGED << ctx, options, heap, log, cleanup_pos,
                  program_invocation_name, optind, option_index,
                  line, line_copy, ret, shcall, nread, stdin_eof, io >>

\* lines 197-203 and 207-213: build the argument vector for a command that
\* was found; report one that was not
Dispatch ==
  /\ pc = "dispatch"
  /\ UNCHANGED ncalls
  /\ IF cmd # NoCmd
     THEN \/ LET argv == split_str(line) IN
               /\ ctx' = [ctx EXCEPT !.argc = Len(argv), !.argv = argv]
               /\ program_invocation_name' = [str |-> argv[1], buf |-> "line"]
               /\ pc' = "exec"
               /\ UNCHANGED << faults, line_copy, io, exitCode, exitPath >>
          \/ \* malloc == NULL in split_str: ctx->argv[0] reads through NULL
             /\ ctx' = [ctx EXCEPT !.argc = CountSpaces(line, 1) + 1,
                                   !.argv = << >>]
             /\ Crash("null_argv")
             /\ UNCHANGED << program_invocation_name, line_copy, io >>
     ELSE /\ io' = [kind |-> "unknown_command", arg |-> token]
          /\ line_copy' = NULLSTR
          /\ pc' = "prompt"
          /\ UNCHANGED << ctx, faults, program_invocation_name,
                          exitCode, exitPath >>
  /\ UNCHANGED << options, heap, log, cleanup_pos, optind, option_index,
                  line, token, cmd, ret, shcall, nread, stdin_eof >>

\* line 204: the handler runs
Exec ==
  /\ pc = "exec"
  /\ ncalls' = ncalls + 1
  /\ \E o \in execute(cmd, ctx, heap) :
       /\ ret' = o.ret
       /\ ctx' = o.ctx
       /\ heap' = o.heap
  /\ pc' = "handler_ret"
  /\ UNCHANGED << options, faults, log, cleanup_pos,
                  program_invocation_name, optind, option_index,
                  line, line_copy, token, cmd, shcall, nread, stdin_eof, io,
                  exitCode, exitPath >>

\* lines 205-214: drop the argument vector and the copy, loop
HandlerReturned ==
  /\ pc = "handler_ret"
  /\ UNCHANGED ncalls
  /\ ctx' = [ctx EXCEPT !.argv = << >>]
  /\ line_copy' = NULLSTR
  /\ pc' = AfterHandler(ret)
  /\ UNCHANGED << options, heap, faults, log, cleanup_pos,
                  program_invocation_name, optind, option_index,
                  line, token, cmd, ret, shcall, nread, stdin_eof, io,
                  exitCode, exitPath >>

\* lines 216-218, and main at 388 or 394: start_shell returns ret; the
\* first call's result is dropped, the second call's is main's ret
ShellOut ==
  /\ pc = "sh_out"
  /\ UNCHANGED ncalls
  /\ line' = NULLSTR
  /\ program_invocation_name' =
       IF program_invocation_name.buf = "line"
       THEN [str |-> NULLSTR, buf |-> "freed"]
       ELSE program_invocation_name
  /\ IF shcall = 1
     THEN pc' = "shell_again" /\ UNCHANGED cleanup_pos
     ELSE pc' = "cleanup" /\ cleanup_pos' = 1
  /\ UNCHANGED << ctx, options, heap, faults, log, optind, option_index,
                  line_copy, token, cmd, ret, shcall, nread, stdin_eof, io,
                  exitCode, exitPath >>

\* main, lines 390-394: print the options when debugging, then call
\* start_shell a second time
ShellAgain ==
  /\ pc = "shell_again"
  /\ UNCHANGED ncalls
  /\ io' = IF options.debug
           THEN [kind |-> "print_xlator_options", arg |-> NULLSTR]
           ELSE io
  /\ shcall' = 2
  /\ pc' = "prompt"
  /\ UNCHANGED << ctx, options, heap, faults, log, cleanup_pos,
                  program_invocation_name, optind, option_index,
                  line, line_copy, token, cmd, ret, nread, stdin_eof,
                  exitCode, exitPath >>

-----------------------------------------------------------------------------
(* cleanup and the SIGINT handler *)

\* a cleanup that closes the connection before it frees anything
CleanupOrderCloseFirst == <<"fs", "url", "xlator_options", "options", "ctx">>

\* the statements of cleanup (), in the order it runs them
CleanupOrder == <<"url", "xlator_options", "options", "fs", "ctx">>

\* the pointer cleanup tests before it releases a resource; free (ctx) is
\* not guarded
Guard(res) ==
  CASE res = "url" -> ctx.url # "NULL"
    [] res \in {"xlator_options", "options"} -> ctx.options # "NULL"
    [] res = "fs" -> ctx.fs # "NULL"
    [] res = "ctx" -> TRUE

\* the memory a statement of cleanup reads to get at its resource
Reads(res) == IF res = "xlator_options" THEN {"ctx", "options"} ELSE {"ctx"} \ {res}

\* one statement of cleanup run by `by' on st = [heap, faults, log]:
\* reading freed memory and releasing what is already released are faults
CleanupStatement(by, res, st) ==
  LET uaf == IF \E m \in Reads(res) : st.heap[m] = "freed"
             THEN {"use_after_free"} ELSE {}
  IN IF ~Guard(res) \/ st.heap[res] = "none"
     THEN [st EXCEPT !.faults = @ \cup uaf]
     ELSE [heap |-> [st.heap EXCEPT ![res] = "freed"],
           faults |-> st.faults \cup uaf \cup
                      (IF st.heap[res] = "freed" THEN {"double_release"}
                       ELSE {}),
           log |-> Append(st.log, [by |-> by, res |-> res])]

\* cleanup () from its k-th statement to its end
RECURSIVE CleanupFrom(_, _, _)
CleanupFrom(by, k, st) ==
  IF k > Len(CleanupOrder) THEN st
  ELSE CleanupFrom(by, k + 1, CleanupStatement(by, CleanupOrder[k], st))

\* main, line 397: cleanup (), one statement at a time
Cleanup ==
  /\ pc = "cleanup"
  /\ UNCHANGED ncalls
  /\ LET st == CleanupStatement("main", CleanupOrder[cleanup_pos],
                                [heap |-> heap, faults |-> faults,
                                 log |-> log])
     IN /\ heap' = st.heap
        /\ faults' = st.faults
        /\ log' = st.log
  /\ IF cleanup_pos < Len(CleanupOrder)
     THEN cleanup_pos' = cleanup_pos + 1 /\ UNCHANGED pc
     ELSE cleanup_pos' = 0 /\ pc' = "main_ret"
  /\ UNCHANGED << ctx, options, program_invocation_name, optind,
                  option_index, line, line_copy, token, cmd, ret, shcall,
                  nread, stdin_eof, io, exitCode, exitPath >>

\* the status main returns for ret with the test of line 399 left out
ExitStatusUnmapped(r) == r

\* main, lines 399-403: the status main returns for ret
ExitStatus(r) == IF r = -1 THEN EXIT_FAILURE ELSE r

\* main, lines 399-403: -1 becomes EXIT_FAILURE; return
MainReturn ==
  /\ pc = "main_ret"
  /\ UNCHANGED ncalls
  /\ Terminate(ExitStatus(ret), "return")
  /\ UNCHANGED << ctx, options, heap, faults, log, cleanup_pos,
                  program_invocation_name, optind, option_index,
                  line, line_copy, token, cmd, ret, shcall, nread,
                  stdin_eof, io >>

\* sig_handler (SIGINT): preempts main wherever it is, runs the whole of
\* cleanup () and exits; main never resumes.  After a fault the process
\* either gets to exit or is killed.
SigInt ==
  /\ Running
  /\ UNCHANGED ncalls
  /\ LET st == CleanupFrom("sigint", 1,
                           [heap |-> heap, faults |-> faults, log |-> log])
     IN /\ heap' = st.heap
        /\ faults' = st.faults
        /\ log' = st.log
        /\ \/ /\ pc' = "exited"
              /\ exitCode' = EXIT_SUCCESS
              /\ exitPath' = "sigint"
           \/ /\ st.faults # faults
              /\ pc' = "crashed"
              /\ exitPath' = "crash"
              /\ UNCHANGED exitCode
  /\ UNCHANGED << ctx, options, cleanup_pos, program_invocation_name,
                  optind, option_index, line, line_copy, token, cmd, ret,
                  shcall, nread, stdin_eof, io >>

-----------------------------------------------------------------------------
(* The program *)

Next ==
  \/ MainDispatch
  \/ DirectExec
  \/ Getopt
  \/ PoConnect
  \/ PoApply
  \/ EnterShell
  \/ Prompt
  \/ Getline
  \/ GotLine
  \/ Tokenize
  \/ Dispatch
  \/ Exec
  \/ HandlerReturned
  \/ ShellOut
  \/ ShellAgain
  \/ Cleanup
  \/ MainReturn
  \/ SigInt

Spec == Init /\ [][Next]_vars

-----------------------------------------------------------------------------
(* Properties *)

\* the SIGINT handler has run: its cleanup always logs free (ctx)
Interrupted == \E i \in DOMAIN log : log[i].by = "sigint"

\* the positions of main inside the loop of start_shell
LoopPcs ==
  {"prompt", "reading", "got_line", "tokenize", "dispatch", "exec",
   "handler_ret"}

\* a line of spaces and newlines only
Blank(l) == l # NULLSTR /\ \A i \in DOMAIN l : l[i] \in {" ", "\n"}

\* t is the name or the alias of an entry of the command table
Registered(t) ==
  \E j \in 1..NUM_CMDS : t = cmds[j].name \/ t = cmds[j].alias

\* C1: under every interleaving of main with the SIGINT handler, no
\* resource of the Context is released twice and the freed Context is
\* never read.
C1_ReleasedAtMostOnce ==
  faults \cap {"double_release", "use_after_free"} = {}

\* C2: whenever the process has exited after the Context was created, the
\* Context has been destroyed: no connection that was opened is left
\* unclosed, and the backend-option memory and the URL are released.
C2_DestroyedBeforeExit ==
  pc = "exited" =>
    \A r \in {"fs", "xlator_options", "url"} : heap[r] # "live"

\* C3, as claimed: within one run of cleanup no option memory is released
\* before the open connection has been closed.
C3_ConnectionClosedFirst ==
  \A j \in DOMAIN log :
    (log[j].res \in {"xlator_options", "options"} /\ ctx.fs # "NULL")
      => \E i \in 1..(j - 1) : log[i].by = log[j].by /\ log[i].res = "fs"

\* the place of a release in the order C3 is amended to
C3_Rank(res) ==
  CASE res = "xlator_options" -> 1
    [] res = "options" -> 2
    [] res = "fs" -> 3
    [] res = "ctx" -> 4
    [] OTHER -> 0

\* C3, amended: within one run of cleanup the backend-option memory is
\* released first (the option list, then the options record), then the
\* open connection is closed, then the Context record is released.
C3_OptionsThenConnectionThenContext ==
  \A i, j \in DOMAIN log :
    (i < j /\ log[i].by = log[j].by
       /\ C3_Rank(log[i].res) > 0 /\ C3_Rank(log[j].res) > 0)
      => C3_Rank(log[i].res) < C3_Rank(log[j].res)

\* C3 witness: main's cleanup has run to its end on a Context that held
\* options and an open connection.
C3_Witness ==
  /\ pc = "main_ret"
  /\ ctx.fs # "NULL"
  /\ \A r \in {"xlator_options", "options", "fs", "ctx"} : heap[r] = "freed"
  /\ ~Interrupted

\* C4: main leaves the loop of start_shell only on end-of-input, on the
\* quit command, or on interrupt.
C4_LoopLeftOnlyOnEofQuitInterrupt ==
  [][(pc \in LoopPcs /\ pc' \notin LoopPcs)
       => \/ pc = "reading" /\ pc' = "sh_out" /\ io'.kind = "eof"
          \/ pc = "handler_ret" /\ cmds[cmd].execute = "handle_quit"
          \/ Interrupted']_vars

\* C5: when a handler called from the loop has returned, with whatever
\* status, main's next step is back at the prompt: the loop is not left
\* and the process does not exit.
C5_HandlerResultReturnsToPrompt ==
  [][(pc = "handler_ret" /\ ~Interrupted')
       => (pc' = "prompt" /\ ret' = ret)]_vars

\* C5 witness: back at the prompt of the first session after a command
\* that failed with -1.
C5_Witness ==
  /\ pc = "prompt"
  /\ shcall = 1
  /\ cmd # NoCmd
  /\ ret = -1

\* C6: when the loop ends on end-of-input, start_shell does not return a
\* failure status and the process exits with code 0.
C6_EofIsCleanExit ==
  /\ (pc = "sh_out" /\ io.kind = "eof") => ret # -1
  /\ (pc = "exited" /\ exitPath = "return" /\ io.kind = "eof")
       => exitCode = 0

\* C7: after quit has been dispatched and its handler has returned, the
\* loop ends: main's next step is the return of start_shell with status 0.
C7_QuitEndsLoop ==
  [][(pc = "handler_ret" /\ cmds[cmd].execute = "handle_quit"
        /\ ~Interrupted')
       => (pc' = "sh_out" /\ ret' = 0)]_vars

\* C8: when the first token of the line matches no name and no alias of
\* the table, main's next step reports the token as unknown, invokes no
\* handler, leaves the Context, the options and the resources as they
\* are, and is back at the prompt.
C8_UnknownCommandReported ==
  [][(pc = "dispatch" /\ ~Registered(token) /\ ~Interrupted')
       => /\ pc' = "prompt"
          /\ io' = [kind |-> "unknown_command", arg |-> token]
          /\ ctx' = ctx
          /\ options' = options
          /\ heap' = heap]_vars

\* C8 witness: back at the prompt after foo was reported as unknown.
C8_Witness ==
  /\ pc = "prompt"
  /\ io = [kind |-> "unknown_command", arg |-> <<"f", "o", "o">>]
  /\ ctx.argv = << >>

\* C9: a line of spaces and newlines only causes no lookup, no handler
\* call and no report, and does not bring the process down.
C9_BlankLineIsNoOp ==
  Blank(line) =>
    /\ pc \notin {"dispatch", "exec", "handler_ret", "crashed"}
    /\ io.kind # "unknown_command"

\* C10: when a handler is about to be invoked from the loop, argv[0] is
\* the string the lookup was made with.
C10_Argv0IsLookupName ==
  pc = "exec" => ctx.argv[1] = token


\* the entries of argv from k on, joined by single spaces
RECURSIVE C11_Join(_, _)
C11_Join(argv, k) ==
  IF k > Len(argv) THEN << >>
  ELSE IF k = Len(argv) THEN argv[k]
       ELSE argv[k] \o <<" ">> \o C11_Join(argv, k + 1)

\* the line without its trailing newline
C11_Body(l) ==
  IF Len(l) > 0 /\ l[Len(l)] = "\n" THEN SubSeq(l, 1, Len(l) - 1) ELSE l

\* C11: the argument vector split_str has built for the line holds one
\* entry more than the line has spaces, no entry is left unset, and the
\* entries are the pieces of the line between its spaces, the trailing
\* newline stripped.
C11_SplitStrFillsEveryEntry ==
  pc = "exec" =>
    /\ Len(ctx.argv) = Cardinality({i \in DOMAIN line : line[i] = " "}) + 1
    /\ \A k \in DOMAIN ctx.argv : ctx.argv[k] # UNSET
    /\ C11_Join(ctx.argv, 1) = C11_Body(line)


-----------------------------------------------------------------------------
(* The lookup on its own: get_cmd applied to names of every shape *)

S_exit == <<"e", "x", "i", "t">>

\* the names and the aliases of the table
RegisteredStrings ==
  {cmds[j].name : j \in DOMAIN cmds} \cup
  {cmds[j].alias : j \in {k \in DOMAIN cmds : cmds[k].alias # NULLSTR}}

LowerCase == <<"a", "c", "d", "e", "f", "g", "h", "i", "k", "l", "m", "n",
               "o", "p", "q", "r", "s", "t", "u", "v">>
UpperCase == <<"A", "C", "D", "E", "F", "G", "H", "I", "K", "L", "M", "N",
               "O", "P", "Q", "R", "S", "T", "U", "V">>

ToUpper(c) ==
  IF \E k \in DOMAIN LowerCase : LowerCase[k] = c
  THEN UpperCase[CHOOSE k \in DOMAIN LowerCase : LowerCase[k] = c]
  ELSE c

\* the strings get_cmd is tried on: every name and alias, their proper
\* prefixes, each with one more character, each in capitals and
\* capitalised, and names that are not in the table
LookupInputs ==
  RegisteredStrings
    \cup UNION {{SubSeq(s, 1, k) : k \in 0..(Len(s) - 1)} :
                  s \in RegisteredStrings}
    \cup {s \o <<"x">> : s \in RegisteredStrings}
    \cup {[k \in DOMAIN s |-> ToUpper(s[k])] : s \in RegisteredStrings}
    \cup {[k \in DOMAIN s |-> IF k = 1 THEN ToUpper(s[k]) ELSE s[k]] :
            s \in RegisteredStrings}
    \cup {S_exit, S_gfcli, <<"f", "o", "o">>}

\* the Context as main constructs it, and one string to look up
FnInit ==
  /\ pc = "fn_input"
  /\ line \in LookupInputs
  /\ program_invocation_name = [str |-> S_gfcli, buf |-> "argv"]
  /\ ctx = [argc |-> 1, argv |-> <<S_gfcli>>,
            conn_str |-> NULLSTR, fs |-> "NULL", options |-> "PTR",
            in_shell |-> TRUE, url |-> "NULL"]
  /\ options = [debug |-> FALSE, xlator_options |-> << >>]
  /\ heap = [r \in Resources |->
               IF r \in {"ctx", "options"} THEN "live" ELSE "none"]
  /\ faults = {}
  /\ log = << >>
  /\ cleanup_pos = 0
  /\ optind = 2
  /\ option_index = 0
  /\ line_copy = NULLSTR
  /\ token = NULLSTR
  /\ cmd = NoCmd
  /\ ret = 0
  /\ shcall = 0
  /\ nread = 0
  /\ stdin_eof = FALSE
  /\ io = NoIO
  /\ ncalls = 0
  /\ exitCode = 0
  /\ exitPath = "none"

\* get_cmd (name)
FnGetCmd ==
  /\ pc = "fn_input"
  /\ cmd' = get_cmd(line)
  /\ pc' = "fn_get_cmd"
  /\ UNCHANGED << ctx, options, heap, faults, log, cleanup_pos,
                  program_invocation_name, optind, option_index,
                  line, line_copy, token, ret, shcall, nread, stdin_eof, io,
                  ncalls, exitCode, exitPath >>

\* start_shell, lines 187-195, on the name typed at the prompt and ended
\* with a newline: copy, first token, trim, get_cmd
FnLookup ==
  /\ pc = "fn_input"
  /\ line # << >>
  /\ line_copy' = line \o <<"\n">>
  /\ token' = trim(strtok_r(line_copy')).str
  /\ cmd' = get_cmd(token')
  /\ pc' = "fn_lookup"
  /\ UNCHANGED << ctx, options, heap, faults, log, cleanup_pos,
                  program_invocation_name, optind, option_index,
                  line, ret, shcall, nread, stdin_eof, io,
                  ncalls, exitCode, exitPath >>

FnNext ==
  \/ FnGetCmd
  \/ FnLookup

FnSpec == FnInit /\ [][FnNext]_vars

\* entry j of the table has the name or the alias s
C12_Match(s, j) ==
  s = cmds[j].name \/ (cmds[j].alias # NULLSTR /\ s = cmds[j].alias)

\* C12: get_cmd returns the entry whose name or alias is exactly the
\* string looked up, the same entry for the name as for the alias, the
\* first such entry in table order, and no entry for any other string.
C12_LookupIsFirstExactMatch ==
  pc = "fn_get_cmd" =>
    /\ \A j \in DOMAIN cmds : C12_Match(line, j) => cmd = j
    /\ cmd # NoCmd =>
         /\ cmd \in DOMAIN cmds
         /\ C12_Match(line, cmd)
         /\ \A k \in 1..(cmd - 1) : ~C12_Match(line, k)
    /\ (~\E j \in DOMAIN cmds : C12_Match(line, j)) => cmd = NoCmd

\* C12 witness: the alias gfls has been looked up and gave the entry of ls.
C12_Witness ==
  /\ pc = "fn_get_cmd"
  /\ line = S_gfls
  /\ cmd \in DOMAIN cmds
  /\ cmds[cmd].name = S_ls

\* the commands shell_usage lists
HelpNames ==
  {S_cat, S_connect, S_cp, S_disconnect, S_help, S_ls, S_mkdir, S_quit,
   S_rm, S_stat, S_tail}

\* C13, as claimed: every listed name, exit included, resolves to a
\* handler when typed at the prompt, and exit resolves to the handler of
\* quit.
C13_EveryListedNameResolves ==
  (pc = "fn_lookup" /\ line \in HelpNames \cup {S_exit}) =>
    /\ cmd # NoCmd
    /\ line = S_exit => cmds[cmd].execute = "handle_quit"

\* C13, amended: every listed name other than exit resolves, when typed
\* at the prompt, to the entry of that name; exit resolves to no entry.
C13_ListedNamesResolveExitDoesNot ==
  pc = "fn_lookup" =>
    /\ line \in HelpNames => (cmd \in DOMAIN cmds /\ cmds[cmd].name = line)
    /\ line = S_exit => cmd = NoCmd

\* C13 witness: tail, the last entry of the table, typed at the prompt and
\* resolved.
C13_Witness ==
  /\ pc = "fn_lookup"
  /\ line = S_tail
  /\ cmd \in DOMAIN cmds
  /\ cmds[cmd].execute = "do_tail"


-----------------------------------------------------------------------------
(* Properties of startup *)

\* C14: parse_options attempts the connection exactly when the command
\* line has a positional (URL) argument: with none it goes on to the shell
\* without calling cli_connect, with one it calls cli_connect.
C14_ConnectIffUrlArgument ==
  [][(pc = "po_connect" /\ ~Interrupted')
       => ((pc' # "enter_shell") <=> (Positionals(ctx.argv, 2) # << >>))]_vars

\* C15: each documented form of a flag is accepted: -d and --debug set
\* debug and parsing goes on; -o KEY=VALUE and --xlator-option KEY=VALUE
\* append that one option at the end of the list and parsing goes on
\* (unless append_xlator_option itself fails, which is reported against
\* the option's value, not against the flag).
C15_DocumentedFlagFormsAccepted ==
  [][(pc = "getopt" /\ NextOption(ctx.argv, optind) # 0 /\ ~Interrupted')
       => LET i == NextOption(ctx.argv, optind)
              w == ctx.argv[i]
          IN /\ w \in {A_d, A_debug} =>
                  (options'.debug /\ pc' = "getopt")
             /\ (w \in {A_o, A_xlator_option} /\ i < Len(ctx.argv)
                   /\ WellFormedOption(ctx.argv[i + 1])) =>
                  \/ /\ options'.xlator_options =
                          Append(options.xlator_options, ctx.argv[i + 1])
                     /\ pc' = "getopt"
                  \/ /\ pc' = "exited"
                     /\ io' = [kind |-> "error", arg |-> ctx.argv[i + 1]]]_vars

\* the word at i is a flag parse_options has no case for, or a flag whose
\* argument is missing or is not KEY=VALUE
C16_BadOption(argv, i) ==
  \/ argv[i] \notin {A_debug, A_help, A_version, A_o, A_xlator_option}
  \/ TakesArg(argv[i]) /\ i = Len(argv)
  \/ TakesArg(argv[i]) /\ i < Len(argv) /\ ~WellFormedOption(argv[i + 1])

\* C16: an error of startup parsing ends the process with a non-zero
\* exit code before the shell is entered: a bad option does so at once,
\* whenever an error has been reported the process has exited from
\* parse_options with a non-zero code and no prompt, and the only exits
\* with code 0 from parse_options are those of --help and --version.
C16_StartupErrorsExitNonZero ==
  /\ [][(pc = "getopt" /\ NextOption(ctx.argv, optind) # 0
           /\ C16_BadOption(ctx.argv, NextOption(ctx.argv, optind))
           /\ ~Interrupted')
          => (pc' = "exited" /\ exitCode' # 0 /\ shcall' = 0)]_vars
  /\ [](io.kind = "error" =>
          /\ pc = "exited"
          /\ exitPath = "parse_options"
          /\ exitCode # 0
          /\ shcall = 0)
  /\ []((pc = "exited" /\ exitPath = "parse_options" /\ exitCode = 0)
          => io.kind \in {"usage", "version"})

\* C16 witness: the process has exited with EXIT_FAILURE on a malformed
\* value of -o, without ever calling start_shell.
C16_Witness ==
  /\ pc = "exited"
  /\ io = [kind |-> "error", arg |-> A_bad]
  /\ exitCode = EXIT_FAILURE
  /\ shcall = 0

-----------------------------------------------------------------------------
(* Properties of main *)

\* main has chosen direct mode
C17_Direct == pc # "main" /\ ~ctx.in_shell

\* C17: main chooses direct mode exactly when the invoked name is a name
\* or an alias of the table.  In direct mode the matching handler is
\* called once with in_shell false, parse_options and start_shell are
\* never called, cleanup runs and main returns the handler's status with
\* -1 turned into EXIT_FAILURE.  Otherwise in_shell is true,
\* parse_options runs and, when it returns, start_shell is called.
C17_DirectModeByInvokedName ==
  /\ [][(pc = "main" /\ ~Interrupted')
          => IF Registered(program_invocation_name.str)
             THEN /\ pc' = "direct_exec"
                  /\ ~ctx'.in_shell
                  /\ cmd' # NoCmd
                  /\ program_invocation_name.str \in
                       {cmds[cmd'].name, cmds[cmd'].alias}
             ELSE /\ pc' = "getopt"
                  /\ ctx'.in_shell]_vars
  /\ [][(pc = "direct_exec" /\ ~Interrupted')
          => /\ ncalls = 0
             /\ ncalls' = 1
             /\ \E o \in execute(cmd, ctx, heap) : ret' = o.ret
             /\ pc' = "cleanup"]_vars
  /\ [][(pc = "enter_shell" /\ ~Interrupted')
          => (ctx.in_shell /\ shcall' = 1 /\ pc' = "prompt")]_vars
  /\ []((C17_Direct /\ ~Interrupted) =>
          /\ pc \in {"direct_exec", "cleanup", "main_ret", "exited"}
          /\ ncalls <= 1
          /\ shcall = 0
          /\ optind = 2
          /\ options = [debug |-> FALSE, xlator_options |-> << >>]
          /\ io = NoIO)
  /\ []((C17_Direct /\ pc = "exited" /\ exitPath = "return") =>
          /\ ncalls = 1
          /\ \E i \in DOMAIN log : log[i] = [by |-> "main", res |-> "ctx"]
          /\ exitCode = (IF ret = -1 THEN EXIT_FAILURE ELSE ret))

\* C17 witness: invoked as gfls, the ls handler has failed with -1 and
\* main has returned EXIT_FAILURE after cleanup.
C17_Witness ==
  /\ C17_Direct
  /\ program_invocation_name.str = S_gfls
  /\ pc = "exited"
  /\ exitPath = "return"
  /\ ncalls = 1
  /\ ret = -1
  /\ exitCode = EXIT_FAILURE

\* C18: in shell mode start_shell is called once in a run: once the loop
\* has ended there is no second call, so no further prompt, line or
\* dispatch before cleanup and exit.
C18_ShellLoopInvokedOnce == shcall <= 1

-----------------------------------------------------------------------------
(* Properties of the argument vector and of trim *)

\* C19: every dispatched line gets an argument vector of its own, built
\* when the Context holds none; the handler leaves it alone and it is
\* dropped when the handler has returned; whenever the loop is about to
\* prompt or to read, the Context holds no argument vector.
C19_ArgvFreshPerDispatch ==
  /\ [](pc \in {"prompt", "reading"} => ctx.argv = << >>)
  /\ [][(pc = "dispatch" /\ pc' = "exec")
          => /\ ctx.argv = << >>
             /\ ctx'.argv # << >>
             /\ ctx'.argc = Len(ctx'.argv)]_vars
  /\ [][(pc = "exec" /\ ~Interrupted') => ctx'.argv = ctx.argv]_vars
  /\ [][(pc = "handler_ret" /\ ~Interrupted')
          => (ctx.argv # << >> /\ ctx'.argv = << >>)]_vars

\* C19 witness: reading the next line after a command of three words
\* has been dispatched, with no argument vector left in the Context.
C19_Witness ==
  /\ pc = "reading"
  /\ ncalls = 1
  /\ ctx.argc = 3
  /\ ctx.argv = << >>

\* C20: trim never reads or writes outside the token it is given, and
\* is never given a null token, whatever line the loop has read.
C20_TrimStaysInsideToken ==
  faults \cap {"trim_out_of_bounds", "null_token"} = {}

=============================================================================
